---------------------------- MODULE Spec2Model ----------------------------
(***************************************************************************)
(* Model of bionic's pthread_create (libc/bionic/pthread_create.cpp).      *)
(*                                                                         *)
(* One call of pthread_create is modelled statement by statement (the      *)
(* creator), together with the thread it spawns (__pthread_start, the      *)
(* child).  The kernel (mmap, mprotect, munmap, clone, the sched_* calls)  *)
(* and the random source are the environment: every outcome they can       *)
(* produce is a nondeterministic choice.  size_t is SizeBits wide; all     *)
(* size arithmetic wraps modulo 2^SizeBits exactly where the C code's      *)
(* does.  The inputs are the local thread_attr pthread_create works on     *)
(* (after lines 387-392), the build target and the user's start routine.   *)
(***************************************************************************)
EXTENDS Integers, Sequences, FiniteSets, TLC

VARIABLES
    target,      \* the build: which of __LP64__ / __aarch64__ are defined
    attr_in,     \* the attributes the caller passed (never modified)
    thread_attr, \* pthread_create's local copy, modified by __allocate_thread
    pc,          \* the creator's position in pthread_create
    result,      \* the value pthread_create returned (meaningful at pc = "returned")
    errno,       \* the creator's errno
    thread_out,  \* the caller's *thread_out
    alloc,       \* locals of __allocate_thread_mapping / __allocate_thread
    mem,         \* the live mappings of the address space
    thread,      \* the pthread_internal_t inside the mapping
    child_stack, \* the stack pointer handed to clone
    clone_result,\* pthread_create's rc and clone_errno
    init,        \* locals of __init_thread
    registry,    \* the threads __pthread_internal_add has registered
    child,       \* the spawned thread: its position and what it did
    trace        \* the calls and bookkeeping writes made so far, in order

vars == <<target, attr_in, thread_attr, pc, result, errno, thread_out, alloc, mem,
          thread, child_stack, clone_result, init, registry, child, trace>>

---------------------------------------------------------------------------
(* Bounds of the model *)

\* width of size_t and of addresses, in bits (scaled down from 32 / 64)
SizeBits == 25

(* Program constants *)

PAGE_SIZE == 4096
PTHREAD_GUARD_SIZE == PAGE_SIZE
\* sizeof(pthread_internal_t): under one page, a multiple of 16
SizeofPthreadInternal == 704
\* __libc_shared_globals()->static_tls_layout.size(): not a whole number of pages
LayoutSize == 8256
SIGNAL_STACK_SIZE == 5 * PAGE_SIZE
SCS_SIZE == 2 * PAGE_SIZE
SCS_GUARD_REGION_SIZE == 4096 * PAGE_SIZE
StackAlignment == 16

EPERM == 1
EAGAIN == 11
ENOMEM == 12
EINVAL == 22

SCHED_NORMAL == 0
SCHED_FIFO == 1
SCHED_RESET_ON_FORK == 1073741824

THREAD_NOT_JOINED == "THREAD_NOT_JOINED"
THREAD_DETACHED == "THREAD_DETACHED"

PTHREAD_ATTR_FLAG_DETACHED == "DETACHED"
PTHREAD_ATTR_FLAG_INHERIT == "INHERIT"
PTHREAD_ATTR_FLAG_EXPLICIT == "EXPLICIT"

\* function pointers
UserRoutine == "user_start_routine"
DoNothing == "__do_nothing"
NullRoutine == "nullptr"
\* the argument the caller passes; 0 is nullptr
UserArg == 77
CreatorPid == 1234
ChildTid == 1235
\* *thread_out before the call, and the handle __pthread_internal_add returns
NoHandle == "untouched"
Handle == "pthread_t"

---------------------------------------------------------------------------
(* size_t arithmetic *)

RECURSIVE Pow2(_)
Pow2(n) == IF n = 0 THEN 1 ELSE 2 * Pow2(n - 1)

SizeLimit == Pow2(SizeBits)
SizeMax == SizeLimit - 1

\* __BIONIC_ALIGN(value, alignment): (value + alignment - 1) & ~(alignment - 1), in size_t
BionicAlign(value, alignment) ==
    LET sum == (value + alignment - 1) % SizeLimit
    IN  sum - (sum % alignment)


\* the value is not aligned at all
BionicAlignDown_None(value, alignment) == value

\* __BIONIC_ALIGN_DOWN(value, alignment)
BionicAlignDown(value, alignment) == value - (value % alignment)

\* plain size_t addition: the sum wraps and no overflow is reported
AddOverflow_Wrapping(a, b) ==
    [overflow |-> FALSE, value |-> (a + b) % SizeLimit]

\* __builtin_add_overflow(a, b, &out): reports whether a + b left size_t, out is the wrapped sum
AddOverflow(a, b) ==
    [overflow |-> a + b > SizeMax, value |-> (a + b) % SizeLimit]


\* the shadow call stack is set up on every target
AARCH64_Always == TRUE

LP64 == target \in {"x86_64", "aarch64"}
AARCH64 == target = "aarch64"

\* the values arc4random_uniform(upper_bound) is sampled at (all of them < upper_bound)
Arc4RandomUniform(upper_bound) ==
    IF upper_bound < 2 THEN {0}
    ELSE {r \in {0, 1, PAGE_SIZE + 1, upper_bound - 1} : r < upper_bound}

---------------------------------------------------------------------------
(* The address space *)

\* the addresses the kernel is sampled to hand out
MmapBases == {16 * PAGE_SIZE, SizeLimit \div 2}

Overlaps(base, size, m) == base < m.base + m.size /\ m.base < base + size

\* the bases at which a new mapping of `size` bytes fits
FreeBases(size) ==
    {b \in MmapBases : b + size <= SizeLimit /\ \A m \in mem : ~Overlaps(b, size, m)}

\* munmap(base, size): the mappings left (a mapping is unmapped whole here)
Munmap(base) == {m \in mem : m.base # base}


\* the range is taken from the start of the mapping instead of from addr
Mprotect_FromBase(base, addr, len) ==
    {IF m.base = base /\ len > 0
        THEN [m EXCEPT !.rw = @ \cup {<<base, BionicAlign(len, PAGE_SIZE)>>}]
        ELSE m : m \in mem}

\* mprotect(addr, len, PROT_READ | PROT_WRITE) on the mapping at `base`:
\* the kernel rounds len up to whole pages
Mprotect(base, addr, len) ==
    {IF m.base = base /\ len > 0
        THEN [m EXCEPT !.rw = @ \cup {<<addr, BionicAlign(len, PAGE_SIZE)>>}]
        ELSE m : m \in mem}

\* mprotect fails with EINVAL on an unaligned address; otherwise it may fail with ENOMEM
MprotectMustFail(addr) == addr % PAGE_SIZE # 0

Log(e) == trace' = Append(trace, e)

---------------------------------------------------------------------------
(* Inputs *)

\* attr.stack_size: small and large, aligned and not, and the sizes at which each
\* addition of lines 236-244 leaves size_t
StackSizes ==
    {0, PAGE_SIZE, 3 * PAGE_SIZE, 3 * PAGE_SIZE + 16, 64 * PAGE_SIZE,
     3 * (SizeLimit \div 4),
     SizeLimit - 5 * PAGE_SIZE + 1, SizeLimit - 4 * PAGE_SIZE, SizeLimit - 2 * PAGE_SIZE,
     SizeLimit - PAGE_SIZE, SizeMax}

GuardSizes == {0, 1, SizeMax}

\* attr.stack_base: nullptr, or a stack the caller owns
UserStackBase == 2048 * PAGE_SIZE
StackBases == {0, UserStackBase}

SchedFlags == {{}, {PTHREAD_ATTR_FLAG_INHERIT}, {PTHREAD_ATTR_FLAG_EXPLICIT}}
DetachFlags == {{}, {PTHREAD_ATTR_FLAG_DETACHED}}
SchedPolicies == {SCHED_NORMAL, SCHED_FIFO}

MakeAttr(sb, ss, gs, flags, sp) ==
    [stack_base |-> sb, stack_size |-> ss, guard_size |-> gs, flags |-> flags,
     sched_policy |-> sp, sched_priority |-> IF sp = SCHED_NORMAL THEN 0 ELSE 10]

\* The attributes tried: every stack base, stack size and guard size with the default
\* scheduling fields (a stack the caller supplies lies inside the address space), and
\* every combination of scheduling and detach flags and policy with the default sizes.
\* (__allocate_thread reads only the former fields, __init_thread only the latter.)
DefaultStackSize == 64 * PAGE_SIZE
DefaultGuardSize == PAGE_SIZE
Attrs ==
    {a \in {MakeAttr(sb, ss, gs, {}, SCHED_NORMAL) :
                sb \in StackBases, ss \in StackSizes, gs \in GuardSizes} :
        a.stack_base + a.stack_size <= SizeLimit}
    \cup
    {MakeAttr(sb, DefaultStackSize, DefaultGuardSize, sf \cup df, sp) :
        sb \in StackBases, sf \in SchedFlags, df \in DetachFlags, sp \in SchedPolicies}

Targets == {"arm", "x86_64", "aarch64"}

\* x rounded up to whole pages, without wrapping
PageRoundUp(x) == ((x + PAGE_SIZE - 1) \div PAGE_SIZE) * PAGE_SIZE

\* what is mapped before the call: some memory of the caller and, when the caller
\* supplies the stack, that stack
InitialMem ==
    {[base |-> 4 * PAGE_SIZE, size |-> 4 * PAGE_SIZE, rw |-> {<<4 * PAGE_SIZE, 4 * PAGE_SIZE>>},
      name |-> "caller"]}
    \cup
    (IF attr_in.stack_base # 0 /\ attr_in.stack_size > 0
     THEN {[base |-> attr_in.stack_base, size |-> PageRoundUp(attr_in.stack_size),
            rw |-> {<<attr_in.stack_base, PageRoundUp(attr_in.stack_size)>>},
            name |-> "caller stack"]}
     ELSE {})

\* the memory of a fresh anonymous mapping is zero
ZeroThread ==
    [allocated |-> FALSE, attr |-> [stack_base |-> 0, stack_size |-> 0, guard_size |-> 0,
                                    flags |-> {}, sched_policy |-> 0, sched_priority |-> 0],
     mmap_base |-> 0, mmap_size |-> 0,
     start_routine |-> NullRoutine, start_routine_arg |-> 0,
     cached_pid |-> 0, tid |-> 0, cleanup_stack |-> 0, join_state |-> THREAD_NOT_JOINED,
     alternate_signal_stack |-> 0, shadow_call_stack_guard_region |-> 0,
     startup_handshake_lock |-> "Unlocked"]

ZeroAlloc ==
    [stack_size |-> 0, stack_guard_size |-> 0, gap_size |-> 0, mmap_size |-> 0,
     space |-> 0, thread |-> 0, static_tls |-> 0, stack_base |-> 0, stack_top |-> 0,
     stack_clean |-> FALSE]

\* query_errno: the errno of a failed sched_getscheduler / sched_getparam, 0 if none failed;
\* set_errno: the errno of a failed sched_setscheduler, 0 if it did not fail
ZeroInit ==
    [need_set |-> FALSE, policy |-> 0, sched_priority |-> 0, query_errno |-> 0,
     set_errno |-> 0, init_errno |-> 0]

\* the child has not been cloned; `saw` is what its start routine found when it was called
ZeroChild ==
    [pc |-> "none", ran |-> NullRoutine, arg |-> 0,
     saw |-> [thread_out |-> NoHandle, registered |-> FALSE, join_state |-> THREAD_NOT_JOINED]]

Init ==
    /\ target \in Targets
    /\ attr_in \in Attrs
    /\ thread_attr = attr_in
    /\ pc = "allocate_thread"
    /\ result = 0
    /\ errno = 0
    /\ thread_out = NoHandle
    /\ alloc = ZeroAlloc
    /\ mem = InitialMem
    /\ clone_result = [rc |-> 0, clone_errno |-> 0]
    /\ thread = ZeroThread
    /\ child_stack = 0
    /\ init = ZeroInit
    /\ registry = <<>>
    /\ child = ZeroChild
    /\ trace = <<>>

\* a return of pthread_create
Return(value) == pc' = "returned" /\ result' = value

---------------------------------------------------------------------------
(* __allocate_thread, lines 296-320: which mapping to ask for *)

AllocateThread_Begin ==
    /\ pc = "allocate_thread"
    /\ IF thread_attr.stack_base = 0
       THEN LET unaligned_guard_size == thread_attr.guard_size
                guard_size == BionicAlign(thread_attr.guard_size, PAGE_SIZE)
            IN  /\ thread_attr' = [thread_attr EXCEPT !.guard_size = guard_size]
                /\ IF guard_size < unaligned_guard_size
                   THEN /\ Return(EAGAIN)
                        /\ UNCHANGED alloc
                   ELSE /\ pc' = "mapping_size"
                        /\ alloc' = [alloc EXCEPT !.stack_size = thread_attr.stack_size,
                                                  !.stack_guard_size = guard_size,
                                                  !.stack_clean = TRUE]
                        /\ UNCHANGED result
       ELSE /\ pc' = "mapping_size"
            /\ alloc' = [alloc EXCEPT !.stack_size = 0,
                                      !.stack_guard_size = PTHREAD_GUARD_SIZE,
                                      !.stack_clean = FALSE]
            /\ UNCHANGED <<thread_attr, result>>
    /\ UNCHANGED <<target, attr_in, clone_result, errno, thread_out, mem, thread, child_stack, init,
                   registry, child, trace>>

\* sizeof(pthread_internal_t) rounded up to pages
ThreadPageSize == BionicAlign(SizeofPthreadInternal, PAGE_SIZE)

MaxGapSize(stack_size) == IF LP64 THEN stack_size \div 2 ELSE stack_size \div 10


\* the tail guard is left out of the size
MappingSize_NoTailGuard(stack_size, stack_guard_size, gap_size) ==
    LET s1 == AddOverflow(stack_size, stack_guard_size)
        s2 == AddOverflow(s1.value, gap_size)
        s3 == AddOverflow(s2.value, ThreadPageSize)
        s4 == AddOverflow(s3.value, LayoutSize)
        aligned == BionicAlign(s4.value, PAGE_SIZE)
    IN  [overflow |-> \/ s1.overflow \/ s2.overflow \/ s3.overflow \/ s4.overflow
                      \/ aligned < s4.value,
         value |-> aligned]

\* lines 235-245: the mapping's size, or overflow
MappingSize(stack_size, stack_guard_size, gap_size) ==
    LET s1 == AddOverflow(stack_size, stack_guard_size)
        s2 == AddOverflow(s1.value, gap_size)
        s3 == AddOverflow(s2.value, ThreadPageSize)
        s4 == AddOverflow(s3.value, LayoutSize)
        s5 == AddOverflow(s4.value, PTHREAD_GUARD_SIZE)
        aligned == BionicAlign(s5.value, PAGE_SIZE)
    IN  [overflow |-> \/ s1.overflow \/ s2.overflow \/ s3.overflow \/ s4.overflow
                      \/ s5.overflow \/ aligned < s5.value,
         value |-> aligned]

\* __allocate_thread_mapping, lines 219-245: the gap and the size of the mapping.
\* A failure returns {} and pthread_create returns EAGAIN (lines 310/317, 397-399).
AllocMapping_Size ==
    /\ pc = "mapping_size"
    /\ \E r \in Arc4RandomUniform(MaxGapSize(alloc.stack_size)) :
         LET gap_size == BionicAlign(r, PAGE_SIZE)
             size == MappingSize(alloc.stack_size, alloc.stack_guard_size, gap_size)
         IN  IF size.overflow
             THEN /\ Return(EAGAIN)
                  /\ alloc' = [alloc EXCEPT !.gap_size = gap_size]
             ELSE /\ pc' = "mapping_mmap"
                  /\ alloc' = [alloc EXCEPT !.gap_size = gap_size, !.mmap_size = size.value]
                  /\ UNCHANGED result
    /\ UNCHANGED <<target, attr_in, clone_result, thread_attr, errno, thread_out, mem, thread,
                   child_stack, init, registry, child, trace>>

\* lines 249-257: mmap(nullptr, mmap_size, PROT_NONE, ...)
AllocMapping_Mmap ==
    /\ pc = "mapping_mmap"
    /\ \/ /\ \E space \in FreeBases(alloc.mmap_size) :
               /\ mem' = mem \cup {[base |-> space, size |-> alloc.mmap_size, rw |-> {},
                                    name |-> "thread"]}
               /\ alloc' = [alloc EXCEPT !.space = space]
          /\ pc' = "mapping_mprotect_stack"
          /\ UNCHANGED <<result, errno>>
       \/ /\ errno' = ENOMEM
          /\ Return(EAGAIN)
          /\ UNCHANGED <<mem, alloc>>
    /\ Log("mmap")
    /\ UNCHANGED <<target, attr_in, clone_result, thread_attr, thread_out, thread, child_stack, init,
                   registry, child>>

\* lines 262-271: make the usable stack read-write
AllocMapping_ProtectStack ==
    /\ pc = "mapping_mprotect_stack"
    /\ LET addr == alloc.space + alloc.stack_guard_size
       IN  \/ /\ ~MprotectMustFail(addr)
              /\ mem' = Mprotect(alloc.space, addr, alloc.stack_size)
              /\ pc' = "mapping_mprotect_tls"
              /\ Log("mprotect")
              /\ UNCHANGED <<result, errno>>
           \/ /\ errno' = IF MprotectMustFail(addr) THEN EINVAL ELSE ENOMEM
              /\ mem' = Munmap(alloc.space)
              /\ trace' = trace \o <<"mprotect", "munmap">>
              /\ Return(EAGAIN)
    /\ UNCHANGED <<target, attr_in, clone_result, thread_attr, thread_out, alloc, thread, child_stack,
                   init, registry, child>>

\* a failed mprotect of the TLS region returns without munmap
AllocMapping_ProtectTls_Leaks ==
    /\ pc = "mapping_mprotect_tls"
    /\ LET thread_addr == alloc.space + alloc.stack_guard_size + alloc.stack_size
                          + alloc.gap_size
       IN  /\ alloc' = [alloc EXCEPT !.thread = thread_addr,
                                     !.static_tls = thread_addr + ThreadPageSize]
           /\ \/ /\ ~MprotectMustFail(thread_addr)
                 /\ mem' = Mprotect(alloc.space, thread_addr, ThreadPageSize + LayoutSize)
                 /\ pc' = "mapping_result"
                 /\ Log("mprotect")
                 /\ UNCHANGED <<result, errno>>
              \/ /\ errno' = IF MprotectMustFail(thread_addr) THEN EINVAL ELSE ENOMEM
                 /\ mem' = mem
                 /\ trace' = trace \o <<"mprotect", "munmap">>
                 /\ Return(EAGAIN)
    /\ UNCHANGED <<target, attr_in, clone_result, thread_attr, thread_out, thread, child_stack, init,
                   registry, child>>

\* lines 273-282: make pthread_internal_t and static TLS read-write
AllocMapping_ProtectTls ==
    /\ pc = "mapping_mprotect_tls"
    /\ LET thread_addr == alloc.space + alloc.stack_guard_size + alloc.stack_size
                          + alloc.gap_size
       IN  /\ alloc' = [alloc EXCEPT !.thread = thread_addr,
                                     !.static_tls = thread_addr + ThreadPageSize]
           /\ \/ /\ ~MprotectMustFail(thread_addr)
                 /\ mem' = Mprotect(alloc.space, thread_addr, ThreadPageSize + LayoutSize)
                 /\ pc' = "mapping_result"
                 /\ Log("mprotect")
                 /\ UNCHANGED <<result, errno>>
              \/ /\ errno' = IF MprotectMustFail(thread_addr) THEN EINVAL ELSE ENOMEM
                 /\ mem' = Munmap(alloc.space)
                 /\ trace' = trace \o <<"mprotect", "munmap">>
                 /\ Return(EAGAIN)
    /\ UNCHANGED <<target, attr_in, clone_result, thread_attr, thread_out, thread, child_stack, init,
                   registry, child>>

\* lines 284-293: the ThreadMapping returned, with the randomised stack top
AllocMapping_Result ==
    /\ pc = "mapping_result"
    /\ \E r \in Arc4RandomUniform(SizeofPthreadInternal) :
         alloc' = [alloc EXCEPT
                     !.stack_base = alloc.space,
                     !.stack_top = BionicAlignDown(alloc.space + alloc.stack_guard_size
                                                   + alloc.stack_size - r, StackAlignment)]
    /\ pc' = "allocate_thread_finish"
    /\ UNCHANGED <<target, attr_in, clone_result, thread_attr, result, errno, thread_out, mem, thread,
                   child_stack, init, registry, child, trace>>


\* the mapping's own stack is used even when the caller supplied one
AllocateThread_Finish_IgnoresCallerStack ==
    /\ pc = "allocate_thread_finish"
    /\ LET stack_top == alloc.stack_top
           stack_base == alloc.stack_base
           attr == [thread_attr EXCEPT !.stack_base = stack_base,
                                       !.stack_size = stack_top - stack_base]
       IN  /\ thread_attr' = attr
           /\ thread' = [ZeroThread EXCEPT !.allocated = TRUE, !.attr = attr,
                                           !.mmap_base = alloc.space,
                                           !.mmap_size = alloc.mmap_size]
           /\ child_stack' = stack_top
    /\ pc' = "lock_init"
    /\ UNCHANGED <<target, attr_in, clone_result, result, errno, thread_out, alloc, mem, init,
                   registry, child, trace>>

\* __allocate_thread, lines 312-349: the stack top, the zeroed pthread_internal_t inside the
\* mapping, its attr and mapping fields, and the child's stack pointer
AllocateThread_Finish ==
    /\ pc = "allocate_thread_finish"
    /\ LET stack_top == IF alloc.stack_clean THEN alloc.stack_top
                        ELSE thread_attr.stack_base + thread_attr.stack_size
           stack_base == IF alloc.stack_clean THEN alloc.stack_base
                         ELSE thread_attr.stack_base
           attr == [thread_attr EXCEPT !.stack_base = stack_base,
                                       !.stack_size = stack_top - stack_base]
       IN  /\ thread_attr' = attr
           /\ thread' = [ZeroThread EXCEPT !.allocated = TRUE, !.attr = attr,
                                           !.mmap_base = alloc.space,
                                           !.mmap_size = alloc.mmap_size]
           /\ child_stack' = stack_top
    /\ pc' = "lock_init"
    /\ UNCHANGED <<target, attr_in, clone_result, result, errno, thread_out, alloc, mem, init, registry,
                   child, trace>>

---------------------------------------------------------------------------
(* Lock (startup_handshake_lock): a two-state lock, locked / unlocked *)

LockInit(t) == [t EXCEPT !.startup_handshake_lock = "Unlocked"]
LockIsFree(t) == t.startup_handshake_lock = "Unlocked"
LockLock(t) == [t EXCEPT !.startup_handshake_lock = "Locked"]
LockUnlock(t) == [t EXCEPT !.startup_handshake_lock = "Unlocked"]

---------------------------------------------------------------------------
(* pthread_create, lines 409-427: the gate, the entry point, clone *)

\* line 409: thread->startup_handshake_lock.init(false)
Create_LockInit ==
    /\ pc = "lock_init"
    /\ thread' = LockInit(thread)
    /\ pc' = "lock_lock"
    /\ Log("lock.init")
    /\ UNCHANGED <<target, attr_in, clone_result, thread_attr, result, errno, thread_out, alloc,
                   mem, child_stack, init, registry, child>>

\* the creator forgets to take the gate before clone
Create_LockLock_Forgotten ==
    /\ pc = "lock_lock"
    /\ pc' = "set_start_routine"
    /\ Log("lock.lock")
    /\ UNCHANGED <<target, attr_in, clone_result, thread_attr, result, errno, thread_out, alloc,
                   mem, thread, child_stack, init, registry, child>>

\* line 410: thread->startup_handshake_lock.lock()
Create_LockLock ==
    /\ pc = "lock_lock"
    /\ LockIsFree(thread)
    /\ thread' = LockLock(thread)
    /\ pc' = "set_start_routine"
    /\ Log("lock.lock")
    /\ UNCHANGED <<target, attr_in, clone_result, thread_attr, result, errno, thread_out, alloc,
                   mem, child_stack, init, registry, child>>

\* lines 412-413
Create_SetStartRoutine ==
    /\ pc = "set_start_routine"
    /\ thread' = [thread EXCEPT !.start_routine = UserRoutine, !.start_routine_arg = UserArg]
    /\ pc' = "set_cached_pid"
    /\ trace' = trace \o <<"write:start_routine", "write:start_routine_arg">>
    /\ UNCHANGED <<target, attr_in, clone_result, thread_attr, result, errno, thread_out, alloc,
                   mem, child_stack, init, registry, child>>

\* line 415: thread->set_cached_pid(getpid())
Create_SetCachedPid ==
    /\ pc = "set_cached_pid"
    /\ thread' = [thread EXCEPT !.cached_pid = CreatorPid]
    /\ pc' = "clone"
    /\ Log("write:cached_pid")
    /\ UNCHANGED <<target, attr_in, clone_result, thread_attr, result, errno, thread_out, alloc,
                   mem, child_stack, init, registry, child>>

\* the errors clone can fail with
CloneErrnos == {EAGAIN, ENOMEM}

\* lines 417-429: clone(__pthread_start, child_stack, flags, thread, &thread->tid, tls,
\* &thread->tid); on success the child exists and is at the start of __pthread_start
Create_Clone ==
    /\ pc = "clone"
    /\ \/ /\ clone_result' = [rc |-> ChildTid, clone_errno |-> 0]
          /\ thread' = [thread EXCEPT !.tid = ChildTid]
          /\ child' = [child EXCEPT !.pc = "lock"]
          /\ pc' = "init_thread"
          /\ UNCHANGED errno
       \/ \E e \in CloneErrnos :
            /\ clone_result' = [rc |-> -1, clone_errno |-> e]
            /\ errno' = e
            /\ pc' = "clone_failed_unlock"
            /\ UNCHANGED <<thread, child>>
    /\ Log("clone")
    /\ UNCHANGED <<target, attr_in, thread_attr, result, thread_out, alloc, mem, child_stack,
                   init, registry>>

---------------------------------------------------------------------------
(* pthread_create, lines 428-440: clone failed *)


\* the gate is left locked when clone failed
Create_CloneFailed_Unlock_Missing ==
    /\ pc = "clone_failed_unlock"
    /\ pc' = "clone_failed_munmap"
    /\ UNCHANGED <<target, attr_in, clone_result, thread_attr, result, errno, thread_out, alloc,
                   mem, thread, child_stack, init, registry, child, trace>>

\* line 433
Create_CloneFailed_Unlock ==
    /\ pc = "clone_failed_unlock"
    /\ thread' = LockUnlock(thread)
    /\ pc' = "clone_failed_munmap"
    /\ Log("lock.unlock")
    /\ UNCHANGED <<target, attr_in, clone_result, thread_attr, result, errno, thread_out, alloc,
                   mem, child_stack, init, registry, child>>

\* the mapping is not released when clone failed
Create_CloneFailed_Munmap_Leaks ==
    /\ pc = "clone_failed_munmap"
    /\ Log("munmap")
    /\ Return(clone_result.clone_errno)
    /\ UNCHANGED <<target, attr_in, clone_result, thread_attr, errno, thread_out, alloc, mem,
                   thread, child_stack, init, registry, child>>

\* lines 434-439: unmap the mapping (and the pthread_internal_t in it) and return clone_errno
Create_CloneFailed_Munmap ==
    /\ pc = "clone_failed_munmap"
    /\ IF thread.mmap_size # 0
       THEN /\ mem' = Munmap(thread.mmap_base)
            /\ thread' = ZeroThread
            /\ Log("munmap")
       ELSE UNCHANGED <<mem, thread, trace>>
    /\ Return(clone_result.clone_errno)
    /\ UNCHANGED <<target, attr_in, clone_result, thread_attr, errno, thread_out, alloc,
                   child_stack, init, registry, child>>

---------------------------------------------------------------------------
(* __init_thread, lines 160-211, called at line 442 *)

\* what sched_getscheduler(0) can return: -1, or the creator's policy
GetSchedulerResults == {-1, SCHED_NORMAL, SCHED_FIFO, SCHED_FIFO + SCHED_RESET_ON_FORK}
\* the errors the sched_* calls can fail with
SchedErrnos == {EPERM, EINVAL}
\* the creator's priority, as sched_getparam reports it
CreatorPriority == 20


\* the test of the reset-on-fork bit always succeeds
HasResetOnFork_Always(policy) == TRUE

\* (policy & SCHED_RESET_ON_FORK) != 0, in two's complement
HasResetOnFork(policy) ==
    IF policy < 0 THEN TRUE ELSE (policy \div SCHED_RESET_ON_FORK) % 2 = 1

\* __init_thread returns e to line 442, and line 443 branches on it
InitThreadReturn(e) ==
    /\ init' = [init EXCEPT !.init_errno = e]
    /\ pc' = IF e # 0 THEN "init_failed_detach" ELSE "publish"

\* a failed query is logged and ignored
QueryFailedReturn_Ignored(policy, e) ==
    /\ init' = [init EXCEPT !.policy = policy, !.query_errno = e, !.init_errno = 0]
    /\ pc' = "publish"

\* lines 175-187: policy holds what sched_getscheduler returned; a failed query is
\* returned as errno
QueryFailedReturn(policy, e) ==
    /\ init' = [init EXCEPT !.policy = policy, !.query_errno = e, !.init_errno = e]
    /\ pc' = IF e # 0 THEN "init_failed_detach" ELSE "publish"

\* a failed sched_setscheduler is returned on every target
SetSchedulerFailedReturn_AlwaysReported(e) ==
    /\ init' = [init EXCEPT !.set_errno = e, !.init_errno = e]
    /\ pc' = "init_failed_detach"

\* lines 199-207: a failed sched_setscheduler is returned as errno where __LP64__ is
\* defined, and only logged elsewhere
SetSchedulerFailedReturn(e) ==
    /\ init' = [init EXCEPT !.set_errno = e, !.init_errno = IF LP64 THEN e ELSE 0]
    /\ pc' = IF LP64 THEN "init_failed_detach" ELSE "publish"

\* lines 161-167
InitThread_JoinState ==
    /\ pc = "init_thread"
    /\ thread' = [thread EXCEPT
                    !.cleanup_stack = 0,
                    !.join_state = IF PTHREAD_ATTR_FLAG_DETACHED \notin thread.attr.flags
                                   THEN THREAD_NOT_JOINED ELSE THREAD_DETACHED]
    /\ pc' = "init_thread_sched"
    /\ trace' = trace \o <<"write:cleanup_stack", "write:join_state">>
    /\ UNCHANGED <<target, attr_in, clone_result, thread_attr, result, errno, thread_out, alloc,
                   mem, child_stack, init, registry, child>>


\* the pre-P behaviour is left out
CompatNeedSet_Dropped(flags, need_set, sched_policy) == need_set

\* lines 195-197: the pre-P behaviour when neither INHERIT nor EXPLICIT is set
CompatNeedSet(flags, need_set, sched_policy) ==
    IF flags \cap {PTHREAD_ATTR_FLAG_INHERIT, PTHREAD_ATTR_FLAG_EXPLICIT} = {}
    THEN sched_policy # SCHED_NORMAL
    ELSE need_set

\* lines 169-197: which policy and priority to set, if any
InitThread_Sched ==
    /\ pc = "init_thread_sched"
    /\ IF PTHREAD_ATTR_FLAG_INHERIT \in thread.attr.flags
       THEN \E policy \in GetSchedulerResults :
              LET need_set == HasResetOnFork(policy)
              IN  IF need_set
                  THEN IF policy = -1
                       THEN \E e \in SchedErrnos :
                              /\ errno' = e
                              /\ QueryFailedReturn(policy, e)
                              /\ Log("sched_getscheduler")
                       ELSE \/ \E e \in SchedErrnos :
                                 /\ errno' = e
                                 /\ QueryFailedReturn(policy, e)
                                 /\ trace' = trace \o <<"sched_getscheduler", "sched_getparam">>
                            \/ /\ init' = [init EXCEPT
                                             !.need_set = CompatNeedSet(thread.attr.flags, need_set,
                                                                        thread.attr.sched_policy),
                                             !.policy = policy,
                                             !.sched_priority = CreatorPriority]
                               /\ pc' = "init_thread_setscheduler"
                               /\ trace' = trace \o <<"sched_getscheduler", "sched_getparam">>
                               /\ UNCHANGED errno
                  ELSE /\ init' = [init EXCEPT
                                     !.need_set = CompatNeedSet(thread.attr.flags, need_set,
                                                                thread.attr.sched_policy),
                                     !.policy = policy]
                       /\ pc' = "init_thread_setscheduler"
                       /\ Log("sched_getscheduler")
                       /\ UNCHANGED errno
       ELSE /\ init' = [init EXCEPT
                          !.need_set = CompatNeedSet(thread.attr.flags, TRUE,
                                                     thread.attr.sched_policy),
                          !.policy = thread.attr.sched_policy,
                          !.sched_priority = thread.attr.sched_priority]
            /\ pc' = "init_thread_setscheduler"
            /\ UNCHANGED <<errno, trace>>
    /\ UNCHANGED <<target, attr_in, clone_result, thread_attr, result, thread_out, alloc, mem,
                   thread, child_stack, registry, child>>

\* lines 198-210: sched_setscheduler(thread->tid, policy, &param); its failure is returned
\* only where __LP64__ is defined
InitThread_SetScheduler ==
    /\ pc = "init_thread_setscheduler"
    /\ IF init.need_set
       THEN /\ Log("sched_setscheduler")
            /\ \/ /\ InitThreadReturn(0)
                  /\ UNCHANGED errno
               \/ \E e \in SchedErrnos :
                    /\ errno' = e
                    /\ SetSchedulerFailedReturn(e)
       ELSE /\ InitThreadReturn(0)
            /\ UNCHANGED <<errno, trace>>
    /\ UNCHANGED <<target, attr_in, clone_result, thread_attr, result, thread_out, alloc, mem,
                   thread, child_stack, registry, child>>

---------------------------------------------------------------------------
(* pthread_create, lines 443-451: __init_thread failed *)

\* __pthread_internal_add(thread): the thread joins the registry; its handle is returned
PthreadInternalAdd(t) == Append(registry, t.tid)

\* line 446
Create_InitFailed_Detach ==
    /\ pc = "init_failed_detach"
    /\ thread' = [thread EXCEPT !.join_state = THREAD_DETACHED]
    /\ pc' = "init_failed_add"
    /\ Log("write:join_state")
    /\ UNCHANGED <<target, attr_in, clone_result, thread_attr, result, errno, thread_out, alloc,
                   mem, child_stack, init, registry, child>>

\* the gate is released together with the registration, before the no-op is installed
Create_InitFailed_Add_ReleasesEarly ==
    /\ pc = "init_failed_add"
    /\ registry' = Append(registry, thread.tid)
    /\ thread' = LockUnlock(thread)
    /\ pc' = "init_failed_noop"
    /\ trace' = trace \o <<"__pthread_internal_add", "lock.unlock">>
    /\ UNCHANGED <<target, attr_in, clone_result, thread_attr, result, errno, thread_out, alloc,
                   mem, child_stack, init, child>>

\* the failure path publishes the handle like the success path
Create_InitFailed_Add_Publishes ==
    /\ pc = "init_failed_add"
    /\ registry' = Append(registry, thread.tid)
    /\ thread_out' = Handle
    /\ pc' = "init_failed_noop"
    /\ trace' = trace \o <<"__pthread_internal_add", "store:thread_out">>
    /\ UNCHANGED <<target, attr_in, clone_result, thread_attr, result, errno, alloc, mem,
                   thread, child_stack, init, child>>

\* the failure path does not register the thread
Create_InitFailed_Add_Dropped ==
    /\ pc = "init_failed_add"
    /\ pc' = "init_failed_noop"
    /\ UNCHANGED <<target, attr_in, clone_result, thread_attr, result, errno, thread_out, alloc,
                   mem, thread, child_stack, init, registry, child, trace>>

\* line 447
Create_InitFailed_Add ==
    /\ pc = "init_failed_add"
    /\ registry' = PthreadInternalAdd(thread)
    /\ pc' = "init_failed_noop"
    /\ Log("__pthread_internal_add")
    /\ UNCHANGED <<target, attr_in, clone_result, thread_attr, result, errno, thread_out, alloc,
                   mem, thread, child_stack, init, child>>

\* the user's start routine is left in place
Create_InitFailed_NoOp_Missing ==
    /\ pc = "init_failed_noop"
    /\ pc' = "init_failed_unlock"
    /\ Log("write:start_routine")
    /\ UNCHANGED <<target, attr_in, clone_result, thread_attr, result, errno, thread_out, alloc,
                   mem, thread, child_stack, init, registry, child>>

\* line 448
Create_InitFailed_NoOp ==
    /\ pc = "init_failed_noop"
    /\ thread' = [thread EXCEPT !.start_routine = DoNothing]
    /\ pc' = "init_failed_unlock"
    /\ Log("write:start_routine")
    /\ UNCHANGED <<target, attr_in, clone_result, thread_attr, result, errno, thread_out, alloc,
                   mem, child_stack, init, registry, child>>

\* the failure path returns without unlocking the gate
Create_InitFailed_Unlock_Missing ==
    /\ pc = "init_failed_unlock"
    /\ pc' = "init_failed_return"
    /\ UNCHANGED <<target, attr_in, clone_result, thread_attr, result, errno, thread_out, alloc,
                   mem, thread, child_stack, init, registry, child, trace>>

\* line 449
Create_InitFailed_Unlock ==
    /\ pc = "init_failed_unlock"
    /\ thread' = LockUnlock(thread)
    /\ pc' = "init_failed_return"
    /\ Log("lock.unlock")
    /\ UNCHANGED <<target, attr_in, clone_result, thread_attr, result, errno, thread_out, alloc,
                   mem, child_stack, init, registry, child>>

\* line 450
Create_InitFailed_Return ==
    /\ pc = "init_failed_return"
    /\ Return(init.init_errno)
    /\ UNCHANGED <<target, attr_in, clone_result, thread_attr, errno, thread_out, alloc, mem,
                   thread, child_stack, init, registry, child, trace>>

---------------------------------------------------------------------------
(* pthread_create, lines 453-457: success *)


\* the gate is released first and the handle is stored afterwards
Create_Publish_AfterRelease ==
    \/ /\ pc = "publish"
       /\ thread' = LockUnlock(thread)
       /\ pc' = "publish_late"
       /\ Log("lock.unlock")
       /\ UNCHANGED <<target, attr_in, clone_result, thread_attr, result, errno, thread_out,
                      alloc, mem, child_stack, init, registry, child>>
    \/ /\ pc = "publish_late"
       /\ registry' = PthreadInternalAdd(thread)
       /\ thread_out' = Handle
       /\ pc' = "return"
       /\ trace' = trace \o <<"__pthread_internal_add", "store:thread_out">>
       /\ UNCHANGED <<target, attr_in, clone_result, thread_attr, result, errno, alloc, mem,
                      thread, child_stack, init, child>>

\* line 454: *thread_out = __pthread_internal_add(thread)
Create_Publish ==
    /\ pc = "publish"
    /\ registry' = PthreadInternalAdd(thread)
    /\ thread_out' = Handle
    /\ pc' = "unlock"
    /\ trace' = trace \o <<"__pthread_internal_add", "store:thread_out">>
    /\ UNCHANGED <<target, attr_in, clone_result, thread_attr, result, errno, alloc, mem,
                   thread, child_stack, init, child>>

\* line 455
Create_Unlock ==
    /\ pc = "unlock"
    /\ thread' = LockUnlock(thread)
    /\ pc' = "return"
    /\ Log("lock.unlock")
    /\ UNCHANGED <<target, attr_in, clone_result, thread_attr, result, errno, thread_out, alloc,
                   mem, child_stack, init, registry, child>>

\* line 457
Create_Return ==
    /\ pc = "return"
    /\ Return(0)
    /\ UNCHANGED <<target, attr_in, clone_result, thread_attr, errno, thread_out, alloc, mem,
                   thread, child_stack, init, registry, child, trace>>

---------------------------------------------------------------------------
(* __pthread_start, lines 353-370: the spawned thread *)

\* line 362: thread->startup_handshake_lock.lock(), which blocks while the lock is held
Child_Lock ==
    /\ child.pc = "lock"
    /\ LockIsFree(thread)
    /\ thread' = LockLock(thread)
    /\ child' = [child EXCEPT !.pc = "init_alternate_signal_stack"]
    /\ Log("child:lock.lock")
    /\ UNCHANGED <<target, attr_in, clone_result, thread_attr, pc, result, errno, thread_out,
                   alloc, mem, child_stack, init, registry>>

\* __init_alternate_signal_stack, lines 107-127 (called at 364 through 156)
Child_InitAlternateSignalStack ==
    /\ child.pc = "init_alternate_signal_stack"
    /\ \/ \E stack_base \in FreeBases(SIGNAL_STACK_SIZE) :
            \/ /\ mem' = mem \cup {[base |-> stack_base, size |-> SIGNAL_STACK_SIZE,
                                    rw |-> {<<stack_base + PTHREAD_GUARD_SIZE,
                                              SIGNAL_STACK_SIZE - PTHREAD_GUARD_SIZE>>},
                                    name |-> "thread signal stack"]}
               /\ thread' = [thread EXCEPT !.alternate_signal_stack = stack_base]
               /\ trace' = trace \o <<"child:mmap", "child:mprotect">>
            \/ /\ trace' = trace \o <<"child:mmap", "child:mprotect", "child:munmap">>
               /\ UNCHANGED <<mem, thread>>
       \/ /\ Log("child:mmap")
          /\ UNCHANGED <<mem, thread>>
    /\ child' = [child EXCEPT !.pc = "init_shadow_call_stack"]
    /\ UNCHANGED <<target, attr_in, clone_result, thread_attr, pc, result, errno, thread_out,
                   alloc, child_stack, init, registry>>

\* MAP_FAILED
MapFailed == SizeMax

\* __init_shadow_call_stack, lines 129-153 (called at 364 through 157): empty unless
\* __aarch64__ is defined; there neither mmap nor mprotect is checked
Child_InitShadowCallStack ==
    /\ child.pc = "init_shadow_call_stack"
    /\ IF AARCH64
       THEN /\ \/ \E region \in FreeBases(SCS_GUARD_REGION_SIZE) :
                    \E scs_offset \in {0, SCS_GUARD_REGION_SIZE - 2 * SCS_SIZE} :
                      /\ mem' = mem \cup {[base |-> region, size |-> SCS_GUARD_REGION_SIZE,
                                           rw |-> {<<region + scs_offset, SCS_SIZE>>},
                                           name |-> "shadow call stack"]}
                      /\ thread' = [thread EXCEPT !.shadow_call_stack_guard_region = region]
               \/ /\ thread' = [thread EXCEPT !.shadow_call_stack_guard_region = MapFailed]
                  /\ UNCHANGED mem
            /\ trace' = trace \o <<"child:mmap", "child:mprotect">>
       ELSE UNCHANGED <<mem, thread, trace>>
    /\ child' = [child EXCEPT !.pc = "start_routine"]
    /\ UNCHANGED <<target, attr_in, clone_result, thread_attr, pc, result, errno, thread_out,
                   alloc, child_stack, init, registry>>

\* line 366: thread->start_routine(thread->start_routine_arg); the routine is taken to return
Child_StartRoutine ==
    /\ child.pc = "start_routine"
    /\ child' = [child EXCEPT
                   !.pc = "pthread_exit",
                   !.ran = thread.start_routine,
                   !.arg = thread.start_routine_arg,
                   !.saw = [thread_out |-> thread_out,
                            registered |-> \E i \in 1..Len(registry) : registry[i] = thread.tid,
                            join_state |-> thread.join_state]]
    /\ Log("child:start_routine")
    /\ UNCHANGED <<target, attr_in, clone_result, thread_attr, pc, result, errno, thread_out,
                   alloc, mem, thread, child_stack, init, registry>>

\* pthread_exit's teardown: a detached thread reclaims its own mapping as it exits (the
\* mapping of a joinable thread stays until it is joined)
PthreadExitTeardown(t) ==
    IF t.join_state = THREAD_DETACHED THEN Munmap(t.mmap_base) ELSE mem

\* line 367: pthread_exit(result); the thread ends
Child_Exit ==
    /\ child.pc = "pthread_exit"
    /\ child' = [child EXCEPT !.pc = "exited"]
    /\ mem' = PthreadExitTeardown(thread)
    /\ Log("child:pthread_exit")
    /\ UNCHANGED <<target, attr_in, clone_result, thread_attr, pc, result, errno, thread_out,
                   alloc, thread, child_stack, init, registry>>

---------------------------------------------------------------------------

Creator ==
    \/ AllocateThread_Begin
    \/ AllocMapping_Size
    \/ AllocMapping_Mmap
    \/ AllocMapping_ProtectStack
    \/ AllocMapping_ProtectTls
    \/ AllocMapping_Result
    \/ AllocateThread_Finish
    \/ Create_LockInit
    \/ Create_LockLock
    \/ Create_SetStartRoutine
    \/ Create_SetCachedPid
    \/ Create_Clone
    \/ Create_CloneFailed_Unlock
    \/ Create_CloneFailed_Munmap
    \/ InitThread_JoinState
    \/ InitThread_Sched
    \/ InitThread_SetScheduler
    \/ Create_InitFailed_Detach
    \/ Create_InitFailed_Add
    \/ Create_InitFailed_NoOp
    \/ Create_InitFailed_Unlock
    \/ Create_InitFailed_Return
    \/ Create_Publish
    \/ Create_Unlock
    \/ Create_Return

Child ==
    \/ Child_Lock
    \/ Child_InitAlternateSignalStack
    \/ Child_InitShadowCallStack
    \/ Child_StartRoutine
    \/ Child_Exit

Next == Creator \/ Child

Spec == Init /\ [][Next]_vars

\* both threads are scheduled: neither is starved while it can take a step
FairSpec == Spec /\ WF_vars(Creator) /\ WF_vars(Child)

---------------------------------------------------------------------------
(* Reading the trace *)

Has(e) == \E i \in 1..Len(trace) : trace[i] = e
Count(e) == Cardinality({i \in 1..Len(trace) : trace[i] = e})
First(e) == CHOOSE i \in 1..Len(trace) : trace[i] = e /\ \A j \in 1..(i - 1) : trace[j] # e
Last(e) == CHOOSE i \in 1..Len(trace) : trace[i] = e /\ \A j \in (i + 1)..Len(trace) : trace[j] # e
\* every e in the trace comes before the first f
AllBefore(e, f) == \A i \in 1..Len(trace) : trace[i] = e => i < First(f)

CloneSucceeded == Has("clone") /\ clone_result.rc # -1
CloneFailed == Has("clone") /\ clone_result.rc = -1
Returned == pc = "returned"
\* the creator's positions from the return of __init_thread's failure or success on
AfterInitThread ==
    {"init_failed_detach", "init_failed_add", "init_failed_noop", "init_failed_unlock",
     "init_failed_return", "publish", "unlock", "return", "returned"}
\* the creator's positions after clone succeeded and before it unlocks the gate
BetweenCloneAndRelease ==
    {"init_thread", "init_thread_sched", "init_thread_setscheduler", "init_failed_detach",
     "init_failed_add", "init_failed_noop", "init_failed_unlock", "publish", "unlock"}
ChildPastGate == child.pc \notin {"none", "lock"}
ChildCalled == child.pc \in {"pthread_exit", "exited"}
BookkeepingWrites ==
    {"write:start_routine", "write:start_routine_arg", "write:cached_pid",
     "write:cleanup_stack", "write:join_state"}

---------------------------------------------------------------------------
(* C1: in every interleaving the spawned thread calls start_routine only after the creator
   has unlocked startup_handshake_lock: the creator initialises and locks the gate before
   clone, the child gets past its lock() only once the creator has unlocked, and the
   creator unlocks only after __init_thread has returned. *)
C1_StartAfterRelease ==
    /\ Has("clone") => /\ Has("lock.init") /\ Has("lock.lock")
                       /\ First("lock.init") < First("lock.lock")
                       /\ First("lock.lock") < First("clone")
    /\ ChildPastGate => /\ Has("lock.unlock")
                        /\ First("lock.unlock") < First("child:lock.lock")
    /\ Has("child:start_routine") => First("lock.unlock") < First("child:start_routine")
    /\ (CloneSucceeded /\ Has("lock.unlock")) => pc \in AfterInitThread \ {"init_failed_detach",
                                                     "init_failed_add", "init_failed_noop",
                                                     "init_failed_unlock", "publish", "unlock"}
    /\ (child.pc = "lock" /\ pc \in BetweenCloneAndRelease) => ~LockIsFree(thread)

C1_Witness == child.pc = "exited" /\ child.ran = UserRoutine /\ Returned

(* C2: when clone succeeded, every bookkeeping write of the creator and its call of
   __pthread_internal_add come before the unlock of the gate, the creator changes no
   bookkeeping field after the unlock, and what the child reads when it calls its start
   routine are the values the structure holds from then on. *)
C2_Released == CloneSucceeded /\ Has("lock.unlock")

C2_WritesBeforeRelease ==
    /\ [](C2_Released =>
            /\ \A w \in BookkeepingWrites : Has(w) /\ Last(w) < First("lock.unlock")
            /\ Has("__pthread_internal_add")
            /\ Last("__pthread_internal_add") < First("lock.unlock")
            /\ Len(registry) = 1)
    /\ [](ChildCalled =>
            /\ child.ran = thread.start_routine
            /\ child.arg = thread.start_routine_arg
            /\ child.arg = UserArg
            /\ child.saw.join_state = thread.join_state
            /\ child.saw.registered
            /\ thread.cached_pid = CreatorPid)
    /\ [][C2_Released =>
            /\ thread'.start_routine = thread.start_routine
            /\ thread'.start_routine_arg = thread.start_routine_arg
            /\ thread'.cached_pid = thread.cached_pid
            /\ thread'.cleanup_stack = thread.cleanup_stack
            /\ thread'.join_state = thread.join_state
            /\ thread'.attr = thread.attr
            /\ registry' = registry]_vars

C2_Witness == ChildCalled /\ Returned /\ child.ran = DoNothing

(* C3: if __init_thread returned an error after clone succeeded, the child never calls the
   user's start routine: from the unlock on the structure is THREAD_DETACHED with
   start_routine = __do_nothing, the child runs only the no-op, and pthread_create returns
   that error. *)
C3_InitFailureRunsNoOp ==
    (CloneSucceeded /\ init.init_errno # 0) =>
        /\ child.ran # UserRoutine
        /\ Has("lock.unlock") => /\ thread.join_state = THREAD_DETACHED
                                 /\ thread.start_routine = DoNothing
        /\ ChildCalled => child.ran = DoNothing
        /\ Returned => result = init.init_errno /\ result # 0

C3_Witness == init.init_errno # 0 /\ child.pc = "exited" /\ Returned

(* C4: if clone fails, pthread_create unlocks the gate, unmaps the thread's mapping,
   registers nothing, starts no thread and returns the errno clone set; the live mappings
   are then those from before the call. *)
C4_CloneFailureUnwinds ==
    (CloneFailed /\ Returned) =>
        /\ Count("lock.unlock") = 1
        /\ Count("munmap") = 1
        /\ mem = InitialMem
        /\ registry = <<>>
        /\ child = ZeroChild
        /\ result = clone_result.clone_errno
        /\ result \in CloneErrnos
        /\ thread_out = NoHandle

C4_Witness == CloneFailed /\ Returned /\ thread_attr.stack_base # UserStackBase

(* C5: whenever __allocate_thread_mapping fails (size overflow, mmap, either mprotect)
   nothing it mapped is left mapped, and pthread_create returns EAGAIN without calling
   clone or the registry. *)
C5_AllocationFailed == Returned /\ ~Has("lock.init")

C5_AllocationFailureLeavesNothing ==
    /\ C5_AllocationFailed =>
         /\ result = EAGAIN
         /\ mem = InitialMem
         /\ ~Has("clone")
         /\ registry = <<>>
         /\ ~thread.allocated
         /\ child = ZeroChild
    /\ pc \in {"allocate_thread", "mapping_size", "mapping_mmap"} => mem = InitialMem

C5_Witness == C5_AllocationFailed /\ Count("mprotect") = 2 /\ Has("munmap")

(* C6: when stack_size + guard_size + gap_size + thread_page_size + layout.size() +
   PTHREAD_GUARD_SIZE, or its page round-up, or the page round-up of the guard size,
   exceeds SIZE_MAX, allocation fails with EAGAIN and mmap is never called; a mapping
   size that is used is the exact (unwrapped) page round-up of the sum. *)
C6_Sum ==
    alloc.stack_size + alloc.stack_guard_size + alloc.gap_size + ThreadPageSize
    + LayoutSize + PTHREAD_GUARD_SIZE

C6_SizeComputed == pc \notin {"allocate_thread", "mapping_size"} /\ alloc # ZeroAlloc

C6_GuardOverflows == attr_in.stack_base = 0 /\ PageRoundUp(attr_in.guard_size) > SizeMax

C6_OverflowFails ==
    /\ (C6_SizeComputed /\ PageRoundUp(C6_Sum) > SizeMax) =>
          Returned /\ result = EAGAIN /\ ~Has("mmap") /\ mem = InitialMem
    /\ (C6_GuardOverflows /\ pc # "allocate_thread") =>
          Returned /\ result = EAGAIN /\ ~Has("mmap") /\ mem = InitialMem
    /\ Has("mmap") => alloc.mmap_size = PageRoundUp(C6_Sum)

C6_Witness == C6_SizeComputed /\ C6_Sum > SizeMax /\ alloc.gap_size > 0 /\ Returned

(* C7: *thread_out is written only on the path that returns 0; on every failing return
   it is what it was before the call. *)
C7_HandleOnlyOnSuccess ==
    /\ thread_out # NoHandle => pc \in {"unlock", "return", "returned"}
    /\ Returned => (thread_out = Handle <=> result = 0)
    /\ (Returned /\ result # 0) => thread_out = NoHandle /\ ~Has("store:thread_out")

C7_Witness == Returned /\ result # 0 /\ CloneSucceeded /\ child.pc = "exited"

(* C8: __pthread_internal_add is called exactly once per call if clone succeeded (whether
   __init_thread then succeeded or not), never if allocation or clone failed, and never
   twice. *)
C8_AddedOnce ==
    /\ Count("__pthread_internal_add") <= 1
    /\ Len(registry) = Count("__pthread_internal_add")
    /\ Returned => Len(registry) = (IF CloneSucceeded THEN 1 ELSE 0)
    /\ Len(registry) = 1 => registry[1] = ChildTid /\ CloneSucceeded

C8_Witness == Returned /\ CloneSucceeded /\ init.init_errno # 0 /\ Len(registry) = 1

(* C9: under weak fairness of the creator and of the child, once clone has succeeded the
   creator eventually unlocks the gate and the child eventually gets past it, runs its
   (user or no-op) start routine and exits; the child is blocked at the gate only while
   the creator is between clone and the unlock. *)
C9_ChildEventuallyRuns ==
    /\ (child.pc = "lock") ~> Has("lock.unlock")
    /\ (child.pc = "lock") ~> (child.pc = "exited" /\ child.ran \in {UserRoutine, DoNothing})
    /\ []((child.pc = "lock" /\ ~LockIsFree(thread)) => pc \in BetweenCloneAndRelease)

C9_Witness == child.pc = "lock" /\ ~LockIsFree(thread) /\ pc = "init_failed_noop"

(* C10 as stated: with inherited scheduling, when the query of the creator's policy or
   priority fails, no clone has happened when the failure is returned. *)
C10_QueryFailed == PTHREAD_ATTR_FLAG_INHERIT \in attr_in.flags /\ init.query_errno # 0

C10_Original_NoCloneBeforeFailure ==
    (C10_QueryFailed /\ Returned) => ~Has("clone")

(* C10 amended: with inherited scheduling, when the query of the creator's policy or
   priority fails, pthread_create returns that error, but the kernel thread has already
   been spawned (clone precedes the query); the spawned thread is detached, runs only the
   no-op, and no handle is stored. *)
C10_QueryFailureAfterClone ==
    /\ init.query_errno # 0 => PTHREAD_ATTR_FLAG_INHERIT \in attr_in.flags
    /\ C10_QueryFailed =>
         /\ CloneSucceeded
         /\ First("clone") < First("sched_getscheduler")
         /\ ~Has("sched_setscheduler")
         /\ child.ran # UserRoutine
    /\ (C10_QueryFailed /\ Returned) =>
         /\ result = init.query_errno
         /\ thread_out = NoHandle
         /\ thread.join_state = THREAD_DETACHED
         /\ thread.start_routine = DoNothing

C10_Witness == C10_QueryFailed /\ Returned /\ Has("sched_getparam") /\ child.pc = "exited"

(* C11 as stated: __init_thread calls sched_setscheduler exactly when (a) INHERIT is set
   and the creator's policy has SCHED_RESET_ON_FORK, or (b) INHERIT is clear and EXPLICIT
   is set, or (c) neither is set and attr.sched_policy # SCHED_NORMAL. *)
C11_InitThreadDone == CloneSucceeded /\ pc \in AfterInitThread
C11_Inherit == PTHREAD_ATTR_FLAG_INHERIT \in attr_in.flags
C11_Explicit == PTHREAD_ATTR_FLAG_EXPLICIT \in attr_in.flags
\* (a): sched_getscheduler reported a policy that carries the modifier
C11_CaseA == C11_Inherit /\ Has("sched_getscheduler") /\ init.policy >= SCHED_RESET_ON_FORK
C11_CaseB == ~C11_Inherit /\ C11_Explicit
C11_CaseC == ~C11_Inherit /\ ~C11_Explicit /\ attr_in.sched_policy # SCHED_NORMAL

C11_Original_SetExactlyWhen ==
    C11_InitThreadDone =>
        (Has("sched_setscheduler") <=> (C11_CaseA \/ C11_CaseB \/ C11_CaseC))

(* C11 amended: as stated, except that in case (a) the call is made only if
   sched_getparam also succeeded (a failed query returns before any scheduling call);
   the call is made at most once, with the queried policy and priority in case (a) and
   with attr.sched_policy / attr.sched_priority in cases (b) and (c). *)
C11_SetExactlyWhen ==
    /\ Count("sched_setscheduler") <= 1
    /\ C11_InitThreadDone =>
        /\ Has("sched_setscheduler") <=>
              ((C11_CaseA /\ init.query_errno = 0) \/ C11_CaseB \/ C11_CaseC)
        /\ (Has("sched_setscheduler") /\ C11_Inherit) =>
              /\ init.policy = SCHED_FIFO + SCHED_RESET_ON_FORK
              /\ init.sched_priority = CreatorPriority
        /\ (Has("sched_setscheduler") /\ ~C11_Inherit) =>
              /\ init.policy = attr_in.sched_policy
              /\ init.sched_priority = attr_in.sched_priority
    /\ Has("sched_setscheduler") => C11_InitThreadDone

C11_Witness == C11_InitThreadDone /\ C11_CaseA /\ Has("sched_setscheduler") /\ Returned

(* C12 as stated: with INHERIT set and a creator policy without the reset-on-fork
   modifier, no sched_setscheduler call is made and no scheduling query is made. *)
C12_InheritNoReset ==
    /\ C11_InitThreadDone
    /\ C11_Inherit
    /\ init.policy >= 0
    /\ init.policy < SCHED_RESET_ON_FORK

C12_Original_QuerySkipped ==
    C12_InheritNoReset =>
        /\ ~Has("sched_setscheduler")
        /\ ~Has("sched_getscheduler")
        /\ ~Has("sched_getparam")

(* C12 amended: with INHERIT set and a creator policy without the reset-on-fork
   modifier, no sched_setscheduler call is made and the priority query (sched_getparam)
   is skipped; sched_getscheduler is called once, which is how the policy is known, and
   __init_thread returns 0. *)
C12_NoSetNoGetparam ==
    C12_InheritNoReset =>
        /\ ~Has("sched_setscheduler")
        /\ ~Has("sched_getparam")
        /\ Count("sched_getscheduler") = 1
        /\ init.init_errno = 0
        /\ init.query_errno = 0

C12_Witness == C12_InheritNoReset /\ init.policy = SCHED_FIFO /\ Returned /\ result = 0

(* C13: when sched_setscheduler fails in __init_thread: where __LP64__ is defined
   __init_thread returns errno, pthread_create returns that error and stores no handle,
   and the spawned thread is registered, detached and runs only the no-op (its exit gives
   its mapping back); elsewhere the failure is only logged, __init_thread returns 0, the
   handle is stored and the user's start routine runs. *)
C13_SetFailed == Has("sched_setscheduler") /\ init.set_errno # 0

C13_SetSchedulerFailure ==
    /\ (C13_SetFailed /\ target \in {"x86_64", "aarch64"}) =>
         /\ init.init_errno = init.set_errno
         /\ child.ran # UserRoutine
         /\ thread_out = NoHandle
         /\ Returned => result = init.set_errno
         /\ Has("lock.unlock") => /\ thread.join_state = THREAD_DETACHED
                                  /\ thread.start_routine = DoNothing
                                  /\ registry = <<ChildTid>>
         /\ child.pc = "exited" => /\ child.ran = DoNothing
                                   /\ \A m \in mem : m.base # thread.mmap_base
    /\ (C13_SetFailed /\ target = "arm") =>
         /\ init.init_errno = 0
         /\ child.ran # DoNothing
         /\ Returned => result = 0 /\ thread_out = Handle
         /\ ChildCalled => child.ran = UserRoutine /\ child.arg = UserArg

C13_Witness ==
    C13_SetFailed /\ target = "x86_64" /\ Returned /\ child.pc = "exited"
    /\ PTHREAD_ATTR_FLAG_EXPLICIT \in attr_in.flags

C13_Witness32 == C13_SetFailed /\ target = "arm" /\ Returned /\ child.pc = "exited"

(* C14: when attr.stack_base is not null, __allocate_thread asks for a mapping with stack
   size 0 and guard size PTHREAD_GUARD_SIZE (the gap is then 0 and only the guards and
   the pthread_internal_t / static TLS part are mapped), passes attr.stack_base +
   attr.stack_size to clone as child_stack, and records attr.stack_base and
   attr.stack_size unchanged in the pthread_internal_t. *)
C14_CallerStack == attr_in.stack_base # 0

C14_CallerStackMapping ==
    C14_CallerStack =>
        /\ pc # "allocate_thread" =>
              alloc.stack_size = 0 /\ alloc.stack_guard_size = PTHREAD_GUARD_SIZE
        /\ pc \notin {"allocate_thread", "mapping_size"} =>
              /\ alloc.gap_size = 0
              /\ alloc.mmap_size = PageRoundUp(PTHREAD_GUARD_SIZE + ThreadPageSize + LayoutSize
                                               + PTHREAD_GUARD_SIZE)
              /\ Returned => Has("mmap")
        /\ thread.allocated =>
              /\ child_stack = attr_in.stack_base + attr_in.stack_size
              /\ thread.attr.stack_base = attr_in.stack_base
              /\ thread.attr.stack_size = attr_in.stack_size
              /\ thread.attr.guard_size = attr_in.guard_size
              /\ thread.mmap_size = alloc.mmap_size
        /\ Has("clone") => child_stack = attr_in.stack_base + attr_in.stack_size

C14_Witness ==
    C14_CallerStack /\ CloneSucceeded /\ child.pc = "exited" /\ attr_in.stack_size = 3 * PAGE_SIZE

(* C15 as stated: over the whole creation of one thread, the creator's side and the
   spawned thread's start-up up to the call of its start routine, there is exactly one
   mmap call. *)
C15_ChildStartedUp == child.pc \in {"start_routine", "pthread_exit", "exited"}

C15_Original_ExactlyOneMmap ==
    C15_ChildStartedUp => Count("mmap") + Count("child:mmap") = 1

(* C15 amended: the creator makes exactly one mmap call per thread, for the thread's
   primary mapping, and never a second one to grow or replace it; the spawned thread's
   start-up makes further, separate mmap calls before it calls its start routine: one for
   the alternate signal stack and, where __aarch64__ is defined, one for the shadow call
   stack. *)
C15_OnePrimaryMapping ==
    /\ Count("mmap") <= 1
    /\ thread.allocated => Count("mmap") = 1
    /\ Has("clone") => Count("mmap") = 1
    /\ Cardinality({m \in mem : m.name = "thread"}) <= 1
    /\ C15_ChildStartedUp =>
         /\ Count("mmap") = 1
         /\ Count("child:mmap") = (IF target = "aarch64" THEN 2 ELSE 1)
    /\ child.pc \in {"none", "lock", "init_alternate_signal_stack"} => ~Has("child:mmap")

C15_Witness == C15_ChildStartedUp /\ target = "aarch64" /\ Cardinality(mem) >= 3

(* C16: whenever __allocate_thread_mapping succeeds, mmap_size is the page round-up of
   guard_size + stack_size + gap_size + thread_page_size + layout.size() +
   PTHREAD_GUARD_SIZE, and the regions [stack guard][usable stack][gap][pthread_internal_t
   page(s)][static TLS][tail guard] lie in that order, one after the other, inside
   [mmap_base, mmap_base + mmap_size), with static_tls = mmap_base + guard_size +
   stack_size + gap_size + thread_page_size. *)
C16_MappingSucceeded ==
    pc \in {"mapping_result", "allocate_thread_finish", "lock_init"} \/ Has("lock.init")

C16_StackStart == alloc.space + alloc.stack_guard_size
C16_GapStart == C16_StackStart + alloc.stack_size
C16_ThreadStart == C16_GapStart + alloc.gap_size
C16_TlsStart == C16_ThreadStart + ThreadPageSize
C16_TailStart == C16_TlsStart + LayoutSize
C16_End == alloc.space + alloc.mmap_size

C16_Layout ==
    C16_MappingSucceeded =>
        /\ alloc.stack_size % PAGE_SIZE = 0
        /\ alloc.stack_guard_size % PAGE_SIZE = 0
        /\ alloc.mmap_size = PageRoundUp(alloc.stack_guard_size + alloc.stack_size
                                         + alloc.gap_size + ThreadPageSize + LayoutSize
                                         + PTHREAD_GUARD_SIZE)
        /\ alloc.space % PAGE_SIZE = 0
        /\ alloc.thread = C16_ThreadStart
        /\ alloc.static_tls = C16_TlsStart
        /\ alloc.space <= C16_StackStart
        /\ C16_StackStart <= C16_GapStart
        /\ C16_GapStart <= C16_ThreadStart
        /\ C16_ThreadStart < C16_TlsStart
        /\ C16_TlsStart < C16_TailStart
        /\ C16_TailStart + PTHREAD_GUARD_SIZE <= C16_End
        /\ C16_End <= SizeLimit
        /\ pc = "mapping_result" =>
              \E m \in mem : m.base = alloc.space /\ m.size = alloc.mmap_size

C16_Witness ==
    C16_MappingSucceeded /\ alloc.gap_size > PAGE_SIZE /\ alloc.stack_guard_size > 0
    /\ pc = "lock_init"

(* C17: after a successful __allocate_thread_mapping the only read-write pages of the
   mapping are those of the usable stack [mmap_base + guard_size, + stack_size) and of
   [thread, thread + thread_page_size + layout.size()); the stack guard, the gap and the
   tail guard (at least PTHREAD_GUARD_SIZE bytes at the top) stay PROT_NONE. *)
C17_Disjoint(lo, hi, r) == hi <= r[1] \/ r[1] + r[2] <= lo

C17_OnlyStackAndTlsWritable ==
    (C16_MappingSucceeded /\ child.pc # "exited") =>
        \A m \in mem : m.base = alloc.space =>
            /\ m.rw = (IF alloc.stack_size > 0
                       THEN {<<C16_StackStart, alloc.stack_size>>} ELSE {})
                      \cup {<<C16_ThreadStart, PageRoundUp(ThreadPageSize + LayoutSize)>>}
            /\ \A r \in m.rw :
                 /\ C17_Disjoint(alloc.space, C16_StackStart, r)
                 /\ C17_Disjoint(C16_GapStart, C16_ThreadStart, r)
                 /\ C17_Disjoint(C16_End - PTHREAD_GUARD_SIZE, C16_End, r)
                 /\ alloc.space <= r[1] /\ r[1] + r[2] <= C16_End

C17_Witness ==
    /\ C16_MappingSucceeded
    /\ \E m \in mem : m.base = alloc.space /\ Cardinality(m.rw) = 2
    /\ alloc.gap_size > 0 /\ alloc.stack_guard_size > 0
    /\ pc = "clone"

(* C18: for every stack_size and every value of the random source, the gap above the
   stack is a multiple of PAGE_SIZE and is at most stack_size / 2 where __LP64__ is
   defined and at most stack_size / 10 elsewhere. *)
C18_GapComputed == pc \notin {"allocate_thread", "mapping_size"} /\ alloc # ZeroAlloc

C18_GapWithinBound ==
    C18_GapComputed =>
        /\ alloc.gap_size % PAGE_SIZE = 0
        /\ alloc.gap_size <= (IF target \in {"x86_64", "aarch64"}
                              THEN alloc.stack_size \div 2 ELSE alloc.stack_size \div 10)

(* C19: for every successful __allocate_thread_mapping and every value of the random
   source, stack_top is a multiple of 16 and end - sizeof(pthread_internal_t) - 16 <
   stack_top <= end, where end = mmap_base + guard_size + stack_size is the top of the
   usable stack. *)
C19_StackTopChosen == pc \in {"allocate_thread_finish", "lock_init"} \/ Has("lock.init")

C19_StackTopInRange ==
    C19_StackTopChosen =>
        /\ alloc.stack_top % 16 = 0
        /\ alloc.stack_top <= C16_GapStart
        /\ C16_GapStart - SizeofPthreadInternal - 16 < alloc.stack_top
        /\ alloc.stack_clean => child_stack \in {0, alloc.stack_top}

C19_Witness ==
    C19_StackTopChosen /\ alloc.stack_top < C16_GapStart - 16 /\ alloc.stack_clean
    /\ child_stack = alloc.stack_top

(* C20: the gate is one-shot: the creator initialises and locks it once, before clone;
   on every path after allocation succeeded the creator unlocks it exactly once, and
   only while it is locked; the creator never initialises or locks it again, and the
   child acquires it at most once. *)
C20_OneShotGate ==
    /\ [](/\ Count("lock.init") <= 1
          /\ Count("lock.lock") <= 1
          /\ Count("lock.unlock") <= 1
          /\ Count("child:lock.lock") <= 1
          /\ Has("clone") => /\ Has("lock.lock")
                             /\ First("lock.init") < First("lock.lock")
                             /\ First("lock.lock") < First("clone")
          /\ Has("lock.unlock") => First("lock.lock") < First("lock.unlock")
          /\ (Returned /\ Has("lock.init")) => Count("lock.unlock") = 1
          /\ (Returned /\ ~Has("lock.init")) => ~Has("lock.unlock"))
    /\ [][(Len(trace') > Len(trace) /\ trace'[Len(trace')] = "lock.unlock")
            => (~LockIsFree(thread) /\ pc' # "returned" => LockIsFree(thread'))]_vars
    /\ [][(Len(trace') > Len(trace) /\ trace'[Len(trace')] = "child:lock.lock")
            => (LockIsFree(thread) /\ Has("lock.unlock"))]_vars

C20_Witness ==
    child.pc = "exited" /\ Count("child:lock.lock") = 1 /\ Count("lock.unlock") = 1
    /\ init.set_errno # 0 /\ Returned

(* C21: on the success path __pthread_internal_add is called and its result stored to
   *thread_out before the gate is unlocked, so in every interleaving, when the spawned
   thread calls the user's start routine, *thread_out already holds the thread's handle
   and the thread is already in the registry. *)
C21_SuccessPath == pc \in {"publish", "unlock", "return"} \/ (Returned /\ result = 0)

C21_Registered == \E i \in 1..Len(registry) : registry[i] = thread.tid

C21_UserRoutineNext == child.pc = "start_routine" /\ thread.start_routine = UserRoutine

C21_HandlePublishedBeforeStart ==
    /\ (C21_SuccessPath /\ Has("lock.unlock")) =>
          /\ Has("__pthread_internal_add") /\ Has("store:thread_out")
          /\ First("__pthread_internal_add") < First("store:thread_out")
          /\ First("store:thread_out") < First("lock.unlock")
    /\ (C21_SuccessPath /\ ChildPastGate) => thread_out = Handle /\ C21_Registered
    /\ C21_UserRoutineNext => thread_out = Handle /\ C21_Registered
    /\ child.ran = UserRoutine =>
          /\ child.saw.thread_out = Handle
          /\ child.saw.registered
          /\ thread_out = Handle /\ registry = <<ChildTid>>
          /\ First("store:thread_out") < First("child:start_routine")

C21_Witness ==
    /\ pc = "return"
    /\ child.pc = "pthread_exit"
    /\ child.ran = UserRoutine
    /\ child.saw.thread_out = Handle
    /\ child.saw.registered

=============================================================================
